---- MODULE Spec2Model ----
(***************************************************************************)
(* A model of the binrw/binread per-field pipeline: byte-order resolution, *)
(* magic validation, padding, conditional/computed fields, try, count,     *)
(* restore_position, postprocessing (after_parse), enum variant selection, *)
(* assertions, and the write prelude built by PreludeGenerator.            *)
(***************************************************************************)
EXTENDS Integers, Sequences, FiniteSets, TLC

\* ------------------------------------------------------------------ bounds
\* Longest byte stream enumerated exhaustively.
MaxLen == 3

\* The byte values the enumerated streams are built from.
ByteVals == {0, 1, 255}

\* ------------------------------------------------------------- arithmetic
Max2(a, b) == IF a > b THEN a ELSE b

RECURSIVE Pow256(_)
Pow256(w) == IF w = 0 THEN 1 ELSE 256 * Pow256(w - 1)

Reverse(s) == [i \in 1..Len(s) |-> s[Len(s) + 1 - i]]

\* Bytes [p+1 .. p+n] of bs (the cursor p counts the bytes already passed).
Slice(bs, p, n) == SubSeq(bs, p + 1, p + n)

RECURSIVE DecodeBE(_)
DecodeBE(s) ==
    IF s = <<>> THEN 0
    ELSE 256 * DecodeBE(SubSeq(s, 1, Len(s) - 1)) + s[Len(s)]

\* The integer held by the bytes s in byte order e ("big" or "little").
Decode(s, e, signed) ==
    LET u == IF e = "big" THEN DecodeBE(s) ELSE DecodeBE(Reverse(s))
    IN  IF signed /\ 2 * u >= Pow256(Len(s)) THEN u - Pow256(Len(s)) ELSE u

\* The w bytes of the integer v in byte order e (two's complement).
Encode(v, w, e) ==
    LET be == [i \in 1..w |-> (v \div Pow256(w - i)) % 256]
    IN  IF e = "big" THEN be ELSE Reverse(be)

\* ------------------------------------------------------------- byte order
\* The platform's native byte order is fixed per build; both are modelled.
FinalEndian(e, nat) == IF e = "native" THEN nat ELSE e

\* The byte order a guarded override (is_big / is_little) selects.
CondEndianValue(ov, g) ==
    IF ov = "is_little" THEN (IF g THEN "little" ELSE "big")
    ELSE (IF g THEN "big" ELSE "little")

\* get_endian: the options a level hands down, given its override and the
\* options it received.
GetEndian(ov, g, opt) ==
    CASE ov = "inherit" -> opt
      [] ov \in {"big", "little"} -> ov
      [] OTHER -> CondEndianValue(ov, g)

\* ------------------------------------------------------------------ values
Unset == [st |-> "unset", n |-> 0, b |-> <<>>, r |-> -1]

Absent == [st |-> "absent", n |-> 0, b |-> <<>>, r |-> -1]

IntVal(n) == [st |-> "val", n |-> n, b |-> <<>>, r |-> -1]

VecVal(b) == [st |-> "val", n |-> 0, b |-> b, r |-> -1]

\* ------------------------------------------------------------------ errors
\* kind: BadMagic | AssertFail | Io | EnumErrors | ContractViolation; pos: the
\* stream position carried; step: the pipeline step that raised it; v: the
\* variant being tried when it was raised.
NoErr ==
    [kind |-> "none", pos |-> -1, payload |-> <<>>, errs |-> <<>>, step |-> "none",
     v |-> 0]

Err(kind, pos, step, v) ==
    [kind |-> kind, pos |-> pos, payload |-> <<>>, errs |-> <<>>, step |-> step,
     v |-> v]

\* -------------------------------------------------------- field directives
\* kind: int | vec | nested | ptr | calc | default
\* endian: inherit | big | little | is_big | is_little (guard: sibling = eq)
\* cond: 0 (none) or a sibling index, read when (sibling = 1) # condNeg
\* count: a sibling index (countSib) or the constant countConst
\* post: deferred (after_parse once the struct is read) | now
\* ref: a sibling the ptr's offset is relative to (0: none); for calc, the
\*      sibling the expression 3 + var reads
Fd ==
    [kind |-> "int", width |-> 1, signed |-> FALSE, endian |-> "inherit",
     guardSib |-> 0, guardEq |-> 0, magic |-> <<>>, cond |-> 0, condNeg |-> FALSE,
     try |-> FALSE, restore |-> FALSE, padBefore |-> 0, alignBefore |-> 0,
     padAfter |-> 0, countSib |-> 0, countConst |-> 0, post |-> "deferred",
     ref |-> 0]

U8 == Fd

U16 == [Fd EXCEPT !.width = 2]

U32 == [Fd EXCEPT !.width = 4]

I8 == [Fd EXCEPT !.signed = TRUE]

VecOf(sib, const) == [Fd EXCEPT !.kind = "vec", !.countSib = sib, !.countConst = const]

Nested == [Fd EXCEPT !.kind = "nested"]

Ptr(timing, ref) == [Fd EXCEPT !.kind = "ptr", !.post = timing, !.ref = ref]

Calc(sib) == [Fd EXCEPT !.kind = "calc", !.ref = sib]

Default == [Fd EXCEPT !.kind = "default"]

\* The magic of the nested type used by kind "nested" (a one-byte magic
\* followed by a u8).
NestedMagic == <<1>>

\* assert(lhs > rhs) or assert(lhs > k), with the siblings in payload handed
\* to the custom error.
Assertion(lhs, rhs, k, payload) == [lhs |-> lhs, rhs |-> rhs, k |-> k, payload |-> payload]

Shape(endian, magic, fields, asserts) ==
    [endian |-> endian, magic |-> magic, fields |-> fields, asserts |-> asserts]

Struct(endian, magic, fields, asserts) ==
    [enum |-> FALSE, all |-> FALSE, endian |-> endian, magic |-> magic,
     imports |-> FALSE, variants |-> <<Shape("inherit", <<>>, fields, asserts)>>]

Enum(all, endian, magic, variants) ==
    [enum |-> TRUE, all |-> all, endian |-> endian, magic |-> magic,
     imports |-> FALSE, variants |-> variants]

\* ------------------------------------------------- the documented examples
TestMagic == <<84, 69, 83, 84>>

\* #[br(magic = b"TEST")] struct Test { val: u32 }
DocMagic == Struct("inherit", TestMagic, <<U32>>, <<>>)

\* #[br(assert(some_val > some_smaller_val, NotSmallerError(..)))]
DocAssert == Struct("inherit", <<>>, <<U32, U32>>, <<Assertion(1, 2, 0, <<1, 2>>)>>)

\* struct MyType { #[br(try)] maybe_u32: Option<u32> }
DocTry == Struct("inherit", <<>>, <<[U32 EXCEPT !.try = TRUE]>>, <<>>)

\* struct MyType { #[br(restore_position)] test: u32, test_bytes: [u8; 4] }
DocRestore ==
    Struct("inherit", <<>>, <<[U32 EXCEPT !.restore = TRUE], VecOf(0, 4)>>, <<>>)

\* struct MyType { size: u32, #[br(count = size)] data: Vec<u8> }
DocCount == Struct("inherit", <<>>, <<U32, VecOf(1, 0)>>, <<>>)

\* #[br(little)] struct MyType (#[br(big)] u32, u32);
DocEndian == Struct("little", <<>>, <<[U32 EXCEPT !.endian = "big"], U32>>, <<>>)

\* #[br(big)] struct MyType { val: u8, #[br(is_little = (val == 3))] other_val: u16 }
DocCondEndian ==
    Struct("big", <<>>,
           <<U8, [U16 EXCEPT !.endian = "is_little", !.guardSib = 1, !.guardEq = 3]>>,
           <<>>)

\* struct MyType { var: u32, #[br(if(var == 1))] .., #[br(if(var != 1))] .. }
DocIf ==
    Struct("inherit", <<>>,
           <<U32, [U8 EXCEPT !.cond = 1], [U8 EXCEPT !.cond = 1, !.condNeg = TRUE]>>,
           <<>>)

\* struct MyType { var: u32, #[br(calc = 3 + var)] var_plus_3: u32 }
DocCalc == Struct("inherit", <<>>, <<U32, Calc(1)>>, <<>>)

\* struct Test { #[br(default)] path: Option<PathBuf> }
DocDefault == Struct("inherit", <<>>, <<Default>>, <<>>)

\* enum Command { #[br(magic = 0u8)] Nop, #[br(magic = 1u8)] Jump { loc: u32 },
\*                #[br(magic = 2u8)] Begin { var_count: u16, local_count: u16 } }
DocCommand ==
    Enum(FALSE, "inherit", <<>>,
         <<Shape("inherit", <<0>>, <<>>, <<>>),
           Shape("inherit", <<1>>, <<U32>>, <<>>),
           Shape("inherit", <<2>>, <<U16, U16>>, <<>>)>>)

\* Each documented type with the streams its doctest reads, and streams
\* that make it fail.
DocCases ==
    { <<DocMagic, <<84, 69, 83, 84, 0, 0, 0, 1>>, "big">>,
      <<DocMagic, <<84, 69, 83, 83, 0, 0, 0, 1>>, "big">>,
      <<DocMagic, <<0, 69, 83, 84, 0, 0, 0, 1>>, "big">>,
      <<DocMagic, <<84, 69>>, "big">>,
      <<DocAssert, <<0, 0, 0, 1, 0, 0, 0, 255>>, "big">>,
      <<DocAssert, <<0, 0, 0, 255, 0, 0, 0, 1>>, "big">>,
      <<DocTry, <<>>, "big">>,
      <<DocTry, <<0, 0>>, "big">>,
      <<DocTry, <<0, 0, 0, 1>>, "big">>,
      <<DocRestore, <<0, 0, 0, 1>>, "big">>,
      <<DocRestore, <<0, 0, 0, 1, 7>>, "big">>,
      <<DocCount, <<0, 0, 0, 4, 1, 2, 3, 4>>, "big">>,
      <<DocCount, <<0, 0, 0, 4, 1, 2>>, "big">>,
      <<DocCount, <<0, 0, 0, 0>>, "big">>,
      <<DocEndian, <<0, 0, 0, 1, 1, 0, 0, 0>>, "native">>,
      <<DocCondEndian, <<3, 1, 0>>, "native">>,
      <<DocCondEndian, <<2, 0, 1>>, "native">>,
      <<DocIf, <<0, 0, 0, 1, 3>>, "big">>,
      <<DocIf, <<0, 0, 0, 2, 3>>, "big">>,
      <<DocCalc, <<0, 0, 0, 1>>, "big">>,
      <<DocDefault, <<>>, "native">>,
      <<DocCommand, <<0>>, "big">>,
      <<DocCommand, <<1, 0, 0, 0, 5>>, "big">>,
      <<DocCommand, <<2, 0, 1, 0, 2>>, "big">>,
      <<DocCommand, <<7>>, "big">> }

\* ----------------------------------------------------- the enumerated types
\* Small types over every combination of directives the pipeline handles;
\* each is read from every stream of at most MaxLen bytes.
EndianTypes ==
    { Struct(t, <<>>, <<U8, [U16 EXCEPT !.endian = f]>>, <<>>) :
        t \in {"inherit", "big", "little"}, f \in {"inherit", "big", "little"} }
    \cup
    { Struct(t, <<>>,
             <<U8, [U16 EXCEPT !.endian = f, !.guardSib = 1, !.guardEq = 1]>>, <<>>) :
        t \in {"inherit", "little"}, f \in {"is_big", "is_little"} }

EnumVariants ==
    <<Shape("inherit", <<0>>, <<>>, <<>>),
      Shape("little", <<1>>, <<U16>>, <<>>),
      Shape("inherit", <<255>>, <<[U16 EXCEPT !.endian = "big"]>>,
            <<Assertion(1, 0, 1, <<1>>)>>)>>

TrialVariants ==
    <<Shape("big", <<>>, <<U16>>, <<Assertion(1, 0, 1, <<1>>)>>),
      Shape("inherit", <<>>, <<U8, Nested>>, <<>>),
      Shape("inherit", <<>>, <<U8>>, <<Assertion(1, 0, 0, <<>>)>>)>>

EnumTypes ==
    { Enum(a, t, <<>>, EnumVariants) : a \in BOOLEAN, t \in {"inherit", "big"} }
    \cup { Enum(a, "inherit", <<1>>, TrialVariants) : a \in BOOLEAN }

SmallTypes ==
    EndianTypes \cup EnumTypes \cup
    { Struct("inherit", <<1>>, <<U16>>, <<>>),
      [Struct("big", <<1>>, <<U8>>, <<>>) EXCEPT !.imports = TRUE],
      Struct("inherit", <<>>, <<U8, [U8 EXCEPT !.magic = <<1>>]>>, <<>>),
      Struct("inherit", <<>>, <<U8, U8>>,
             <<Assertion(1, 2, 0, <<1, 2>>), Assertion(2, 0, 0, <<2>>)>>),
      Struct("inherit", <<>>, <<[U16 EXCEPT !.try = TRUE], U8>>, <<>>),
      Struct("inherit", <<>>, <<[Nested EXCEPT !.try = TRUE], U8>>, <<>>),
      Struct("inherit", <<>>, <<Nested, U8>>, <<>>),
      Struct("inherit", <<>>, <<[U16 EXCEPT !.try = TRUE, !.restore = TRUE], U8>>, <<>>),
      Struct("inherit", <<>>, <<[Ptr("now", 0) EXCEPT !.try = TRUE], U8>>, <<>>),
      Struct("inherit", <<>>,
             <<[U16 EXCEPT !.restore = TRUE, !.padBefore = 1], U8>>, <<>>),
      Struct("inherit", <<>>,
             <<U8, [U8 EXCEPT !.restore = TRUE, !.alignBefore = 2, !.padAfter = 1], U8>>,
             <<>>),
      Struct("inherit", <<>>, <<[U16 EXCEPT !.restore = TRUE], VecOf(0, 2)>>, <<>>),
      Struct("inherit", <<>>, <<[U8 EXCEPT !.padBefore = 1, !.padAfter = 1], U8>>, <<>>),
      Struct("inherit", <<>>, <<U8, VecOf(1, 0)>>, <<>>),
      Struct("inherit", <<>>, <<I8, VecOf(1, 0)>>, <<>>),
      Struct("inherit", <<>>, <<VecOf(0, 2), U8>>, <<>>),
      Struct("inherit", <<>>, <<Ptr("deferred", 2), U8>>, <<>>),
      Struct("inherit", <<>>, <<U8, Ptr("now", 1)>>, <<>>),
      Struct("inherit", <<>>, <<Ptr("now", 2), U8>>, <<>>),
      Struct("inherit", <<>>, <<Ptr("deferred", 2), U8, Ptr("now", 0)>>, <<>>),
      Struct("inherit", <<>>, <<Ptr("deferred", 3), Ptr("deferred", 0), U8>>, <<>>),
      Struct("inherit", <<>>,
             <<U8, [U8 EXCEPT !.cond = 1], [U8 EXCEPT !.cond = 1, !.condNeg = TRUE]>>,
             <<>>),
      Struct("inherit", <<>>, <<U8, Calc(1), Default, U8>>, <<>>) }

Streams == UNION { [1..n -> ByteVals] : n \in 0..MaxLen }

Inputs == (SmallTypes \X Streams \X {"big", "little", "native"}) \cup DocCases

\* ------------------------------------------------------------ pure steps
\* CheckMagic with the position taken after the magic was read instead of
\* before it.
CheckMagicPosAfter(bs, p, m) ==
    IF m = <<>> THEN [ok |-> TRUE, pos |-> p, kind |-> "none", epos |-> -1, reached |-> p]
    ELSE IF p + Len(m) > Len(bs)
    THEN [ok |-> FALSE, pos |-> p, kind |-> "Io", epos |-> -1,
          reached |-> Max2(p, Len(bs))]
    ELSE IF Slice(bs, p, Len(m)) = m
    THEN [ok |-> TRUE, pos |-> p + Len(m), kind |-> "none", epos |-> -1,
          reached |-> p + Len(m)]
    ELSE [ok |-> FALSE, pos |-> p, kind |-> "BadMagic", epos |-> p + Len(m),
          reached |-> p + Len(m)]

\* Reading the magic m at cursor p: the cursor after it, or the failure.
\* BadMagic carries the position the magic was expected at.
CheckMagic(bs, p, m) ==
    IF m = <<>> THEN [ok |-> TRUE, pos |-> p, kind |-> "none", epos |-> -1, reached |-> p]
    ELSE IF p + Len(m) > Len(bs)
    THEN [ok |-> FALSE, pos |-> p, kind |-> "Io", epos |-> -1,
          reached |-> Max2(p, Len(bs))]
    ELSE IF Slice(bs, p, Len(m)) = m
    THEN [ok |-> TRUE, pos |-> p + Len(m), kind |-> "none", epos |-> -1,
          reached |-> p + Len(m)]
    ELSE [ok |-> FALSE, pos |-> p, kind |-> "BadMagic", epos |-> p,
          reached |-> p + Len(m)]

\* pad_before then align_before: the cursor the field starts reading at.
SkipBefore(f, p) ==
    LET q == p + f.padBefore
    IN  IF f.alignBefore > 1 /\ q % f.alignBefore # 0
        THEN q + (f.alignBefore - (q % f.alignBefore))
        ELSE q

\* The value of the count expression: a sibling's value or a constant.
CountOf(f, vs) == IF f.countSib # 0 THEN vs[f.countSib].n ELSE f.countConst

\* ReadCount without the check of the count's sign.
ReadCountUnchecked(bs, p, n) ==
    IF p + n > Len(bs)
    THEN [ok |-> FALSE, val |-> Absent, pos |-> p, kind |-> "Io", epos |-> -1,
          reached |-> Max2(p, Len(bs))]
    ELSE [ok |-> TRUE, val |-> VecVal(Slice(bs, p, n)), pos |-> p + n,
          kind |-> "none", epos |-> -1, reached |-> p + n]

\* count = N: N elements in stream order; Io when N is negative or the
\* stream cannot supply N elements.
ReadCount(bs, p, n) ==
    IF n < 0 \/ p + n > Len(bs)
    THEN [ok |-> FALSE, val |-> Absent, pos |-> p, kind |-> "Io", epos |-> -1,
          reached |-> Max2(p, Len(bs))]
    ELSE [ok |-> TRUE, val |-> VecVal(Slice(bs, p, n)), pos |-> p + n,
          kind |-> "none", epos |-> -1, reached |-> p + n]

\* An integer of w bytes in byte order e.
ReadInt(bs, p, w, e, signed) ==
    IF p + w > Len(bs)
    THEN [ok |-> FALSE, val |-> Absent, pos |-> p, kind |-> "Io", epos |-> -1,
          reached |-> Max2(p, Len(bs))]
    ELSE [ok |-> TRUE, val |-> IntVal(Decode(Slice(bs, p, w), e, signed)),
          pos |-> p + w, kind |-> "none", epos |-> -1, reached |-> p + w]

\* The nested type: its magic, then a u8.
ReadNested(bs, p, e) ==
    LET m == CheckMagic(bs, p, NestedMagic)
    IN  IF ~m.ok
        THEN [ok |-> FALSE, val |-> Absent, pos |-> p, kind |-> m.kind,
              epos |-> m.epos, reached |-> m.reached]
        ELSE ReadInt(bs, m.pos, 1, e, FALSE)

\* Steps 6 to 9 of the field pipeline: the value the field produces.
ProduceValue(f, bs, p, e, vs) ==
    CASE f.kind = "default" ->
           [ok |-> TRUE, val |-> IntVal(0), pos |-> p, kind |-> "none",
            epos |-> -1, reached |-> p]
      [] f.kind = "calc" ->
           [ok |-> TRUE, val |-> IntVal(3 + vs[f.ref].n), pos |-> p,
            kind |-> "none", epos |-> -1, reached |-> p]
      [] f.kind = "vec" -> ReadCount(bs, p, CountOf(f, vs))
      [] f.kind = "nested" -> ReadNested(bs, p, e)
      [] OTHER -> ReadInt(bs, p, f.width, e, f.signed)

\* after_parse of a field: a ptr reads the byte its offset (relative to the
\* sibling ref) points at; every other value has nothing to resolve.
RunHook(f, i, vs, bs) ==
    LET target == vs[i].n + (IF f.ref # 0 THEN vs[f.ref].n ELSE 0)
    IN  IF f.kind # "ptr" THEN [ok |-> TRUE, r |-> -1]
        ELSE IF target >= 0 /\ target < Len(bs)
        THEN [ok |-> TRUE, r |-> bs[target + 1]]
        ELSE [ok |-> FALSE, r |-> -1]

\* RunsNow with every after_parse run right away, whatever the directive.
RunsNowAlways(f) == TRUE

\* postprocess_now / deref_now: after_parse runs right after the field is read.
RunsNow(f) == f.post = "now"

\* RecordedPos taken after pad_before and align_before were applied.
RecordedPosAfterPadding(f, p) == SkipBefore(f, p)

\* The position restore_position goes back to: the one the reader had when
\* the field began, before its padding.
RecordedPos(f, p) == p

\* CollectError with the newest error put first.
CollectErrorFront(es, e) == <<e>> \o es

\* return_all_errors: the variants' errors, one per variant, in the order
\* the variants were tried.
CollectError(es, e) == Append(es, e)

EnumErrors(es, p) == [Err("EnumErrors", p, "enum", 0) EXCEPT !.errs = es]

\* TryAbsorbs with the try directive ignored: the failure is raised.
TryAbsorbsNever(f) == FALSE

\* A try field stores None when its parse fails.
TryAbsorbs(f) == f.try

\* Where the reader is left after a try whose parse failed: no position is
\* guaranteed; any position from the one recorded at the start of the field
\* to the furthest one the attempt reached.
TryFailPos(start, reached) == start..Max2(start, reached)

\* The guard of a conditional byte order, over the siblings already read.
GuardOf(f, vs) == f.guardSib # 0 /\ vs[f.guardSib].n = f.guardEq

\* The condition of an if field, over the siblings already read.
CondOf(f, vs) == f.cond = 0 \/ ((vs[f.cond].n = 1) # f.condNeg)

\* AssertHolds with >= for >.
AssertHoldsOrEqual(a, vs) == vs[a.lhs].n >= (IF a.rhs # 0 THEN vs[a.rhs].n ELSE a.k)

\* An assertion's condition and the payload of its custom error.
AssertHolds(a, vs) == vs[a.lhs].n > (IF a.rhs # 0 THEN vs[a.rhs].n ELSE a.k)

AssertPayload(a, vs) == [j \in 1..Len(a.payload) |-> vs[a.payload[j]].n]

\* A directive that reads a sibling not yet parsed when it is evaluated.
ForwardRef(fs) ==
    \E i \in 1..Len(fs) :
        \/ fs[i].kind = "ptr" /\ fs[i].post = "now" /\ fs[i].ref > i
        \/ fs[i].guardSib >= i
        \/ fs[i].cond >= i
        \/ fs[i].countSib >= i
        \/ fs[i].kind = "calc" /\ fs[i].ref >= i

Violates(d) == \E v \in 1..Len(d.variants) : ForwardRef(d.variants[v].fields)

\* ------------------------------------------------------------------- state
VARIABLES
    desc,      \* the type being read and written
    bytes,     \* the stream read
    cfg,       \* the byte order passed in: big, little or native
    nat,       \* the platform's native byte order
    pc,        \* the step the engine is at
    pos,       \* the reader's position
    hi,        \* the furthest position the fields kept have read to
    topt,      \* the options after the type-level byte order
    vopt,      \* the options after the variant-level byte order
    fend,      \* the byte order resolved for the current field
    vi,        \* the variant being tried
    vstart,    \* the reader's position before the variant was tried
    fi,        \* the field being processed
    saved,     \* the position recorded at the start of the field
    how,       \* how the field ended: val, absent (try failed), skip (if false)
    attempt,   \* the last value production: where it began, whether it succeeded
    vals,      \* the fields' values
    dq,        \* the fields whose after_parse is deferred, in registration order
    di,        \* the next deferred after_parse to run
    hookLog,   \* the after_parse calls made, with the siblings each could see
    ai,        \* the next assertion to evaluate
    err,       \* the error being raised
    errs,      \* the errors of the variants tried so far
    result,    \* what read returned
    gen,       \* PreludeGenerator.out: the statements of the generated write
    applied,   \* the prefix_* methods called so far
    code,      \* the tokens finish returned
    wi,        \* the statement being executed
    wopt,      \* the options (byte order) bound in the generated write
    outb,      \* the bytes written
    wpos,      \* the writer's position
    wused,     \* per field written, the byte order it was written in
    wlog,      \* the statements that wrote bytes, in order
    wres       \* what write returned

ins == <<desc, bytes, cfg, nat>>

wv == <<gen, applied, code, wi, wopt, outb, wpos, wused, wlog, wres>>

vars ==
    <<desc, bytes, cfg, nat, pc, pos, hi, topt, vopt, fend, vi, vstart, fi, saved,
      how, attempt, vals, dq, di, hookLog, ai, err, errs, result, gen, applied,
      code, wi, wopt, outb, wpos, wused, wlog, wres>>

CurShape == desc.variants[vi]

Fields == CurShape.fields

CurField == Fields[fi]

Visible(vs) == {j \in 1..Len(vs) : vs[j].st # "unset"}

Init ==
    /\ \E in \in Inputs : desc = in[1] /\ bytes = in[2] /\ cfg = in[3]
    /\ nat \in {"big", "little"}
    /\ pc = "start"
    /\ pos = 0
    /\ hi = 0
    /\ topt = cfg
    /\ vopt = cfg
    /\ fend = cfg
    /\ vi = 1
    /\ vstart = 0
    /\ fi = 1
    /\ saved = 0
    /\ how = "none"
    /\ attempt = [p |-> 0, ok |-> TRUE, reached |-> 0]
    /\ vals = [j \in 1..Len(desc.variants[1].fields) |-> Unset]
    /\ dq = <<>>
    /\ di = 1
    /\ hookLog = <<>>
    /\ ai = 1
    /\ err = NoErr
    /\ errs = <<>>
    /\ result = [tag |-> "none", err |-> NoErr]
    /\ gen = <<>>
    /\ applied = {}
    /\ code = <<>>
    /\ wi = 1
    /\ wopt = cfg
    /\ outb = <<>>
    /\ wpos = 0
    /\ wused = <<>>
    /\ wlog = <<>>
    /\ wres = "none"

\* ------------------------------------------------------------------- read
\* The type is constructed (a forward reference is rejected) and the
\* type-level byte order is bound.
StartRead ==
    /\ pc = "start"
    /\ IF Violates(desc)
       THEN /\ pc' = "fail"
            /\ err' = Err("ContractViolation", -1, "construct", 0)
            /\ topt' = topt
       ELSE /\ pc' = "typemagic"
            /\ err' = err
            /\ topt' = GetEndian(desc.endian, FALSE, cfg)
    /\ UNCHANGED <<ins, pos, hi, vopt, fend, vi, vstart, fi, saved, how, attempt,
                   vals, dq, di, hookLog, ai, errs, result, wv>>

\* The type-level magic is read before anything else.
TypeMagic ==
    /\ pc = "typemagic"
    /\ LET m == CheckMagic(bytes, pos, desc.magic)
       IN  IF m.ok
           THEN /\ pos' = m.pos
                /\ hi' = Max2(hi, m.pos)
                /\ pc' = "vbegin"
                /\ err' = err
           ELSE /\ pc' = "fail"
                /\ err' = Err(m.kind, m.epos, "typemagic", 0)
                /\ UNCHANGED <<pos, hi>>
    /\ UNCHANGED <<ins, topt, vopt, fend, vi, vstart, fi, saved, how, attempt,
                   vals, dq, di, hookLog, ai, errs, result, wv>>

\* A variant (or the struct's only shape) is begun: the position is kept for
\* the next trial, the variant-level byte order bound, its magic read.
VariantBegin ==
    /\ pc = "vbegin"
    /\ vstart' = pos
    /\ vopt' = GetEndian(CurShape.endian, FALSE, topt)
    /\ LET m == CheckMagic(bytes, pos, CurShape.magic)
       IN  IF m.ok
           THEN /\ pos' = m.pos
                /\ hi' = Max2(hi, m.pos)
                /\ pc' = IF Len(Fields) = 0 THEN "deferred" ELSE "fbegin"
                /\ err' = err
           ELSE /\ pc' = "fail"
                /\ err' = Err(m.kind, m.epos, "vmagic", vi)
                /\ UNCHANGED <<pos, hi>>
    /\ UNCHANGED <<ins, topt, fend, vi, fi, saved, how, attempt, vals, dq, di,
                   hookLog, ai, errs, result, wv>>

\* Steps 1 and 2: the position is recorded, pad_before and align_before
\* applied, and the field's byte order resolved.
FieldBegin ==
    /\ pc = "fbegin"
    /\ saved' = RecordedPos(CurField, pos)
    /\ pos' = SkipBefore(CurField, pos)
    /\ fend' = GetEndian(CurField.endian, GuardOf(CurField, vals), vopt)
    /\ how' = "none"
    /\ pc' = "fcond"
    /\ UNCHANGED <<ins, hi, topt, vopt, vi, vstart, fi, attempt, vals, dq, di,
                   hookLog, ai, err, errs, result, wv>>

\* Step 3: a field whose condition is false stores None and reads nothing.
FieldCond ==
    /\ pc = "fcond"
    /\ IF CondOf(CurField, vals)
       THEN /\ pc' = "fmagic"
            /\ UNCHANGED <<vals, how>>
       ELSE /\ pc' = "fafter"
            /\ vals' = [vals EXCEPT ![fi] = Absent]
            /\ how' = "skip"
    /\ UNCHANGED <<ins, pos, hi, topt, vopt, fend, vi, vstart, fi, saved, attempt,
                   dq, di, hookLog, ai, err, errs, result, wv>>

\* Step 4: the field's magic.
FieldMagic ==
    /\ pc = "fmagic"
    /\ LET m == CheckMagic(bytes, pos, CurField.magic)
       IN  IF m.ok
           THEN /\ pos' = m.pos
                /\ hi' = Max2(hi, m.pos)
                /\ pc' = "fvalue"
                /\ err' = err
           ELSE /\ pc' = "fail"
                /\ err' = Err(m.kind, m.epos, "fmagic", vi)
                /\ UNCHANGED <<pos, hi>>
    /\ UNCHANGED <<ins, topt, vopt, fend, vi, vstart, fi, saved, how, attempt,
                   vals, dq, di, hookLog, ai, errs, result, wv>>

\* Steps 5 to 10: the value is produced; a try field stores None on failure.
FieldValue ==
    /\ pc = "fvalue"
    /\ LET r == ProduceValue(CurField, bytes, pos, FinalEndian(fend, nat), vals)
       IN  /\ attempt' = [p |-> pos, ok |-> r.ok, reached |-> r.reached]
           /\ \/ /\ r.ok
                 /\ vals' = [vals EXCEPT ![fi] = r.val]
                 /\ pos' = r.pos
                 /\ hi' = Max2(hi, r.pos)
                 /\ how' = "val"
                 /\ pc' = "fafter"
                 /\ err' = err
              \/ /\ ~r.ok
                 /\ TryAbsorbs(CurField)
                 /\ vals' = [vals EXCEPT ![fi] = Absent]
                 /\ \E q \in TryFailPos(saved, r.reached) : pos' = q
                 /\ how' = "absent"
                 /\ pc' = "fafter"
                 /\ UNCHANGED <<hi, err>>
              \/ /\ ~r.ok
                 /\ ~TryAbsorbs(CurField)
                 /\ pc' = "fail"
                 /\ err' = Err(r.kind, r.epos, "value", vi)
                 /\ UNCHANGED <<vals, pos, hi, how>>
    /\ UNCHANGED <<ins, topt, vopt, fend, vi, vstart, fi, saved, dq, di, hookLog,
                   ai, errs, result, wv>>

\* Steps 11 to 13: pad_after, after_parse now or registered for later, and
\* restore_position. A field that produced no value only restores.
FieldAfter ==
    /\ pc = "fafter"
    /\ LET f == CurField
           p1 == IF how = "val" THEN pos + f.padAfter ELSE pos
           inline == how = "val" /\ RunsNow(f)
           h == RunHook(f, fi, vals, bytes)
       IN  \/ /\ inline => h.ok
              /\ vals' = IF inline THEN [vals EXCEPT ![fi].r = h.r] ELSE vals
              /\ hookLog' =
                    IF inline
                    THEN Append(hookLog, [f |-> fi, visible |-> Visible(vals),
                                          phase |-> "inline"])
                    ELSE hookLog
              /\ dq' = IF how = "val" /\ ~RunsNow(f) THEN Append(dq, fi) ELSE dq
              /\ pos' = IF f.restore THEN saved ELSE p1
              /\ pc' = "fdone"
              /\ UNCHANGED <<how, attempt, err>>
           \/ /\ inline
              /\ ~h.ok
              /\ TryAbsorbs(f)
              /\ vals' = [vals EXCEPT ![fi] = Absent]
              /\ how' = "absent"
              /\ attempt' = [p |-> attempt.p, ok |-> FALSE,
                             reached |-> Max2(p1, Len(bytes))]
              /\ \E q \in TryFailPos(saved, Max2(p1, Len(bytes))) :
                    pos' = IF f.restore THEN saved ELSE q
              /\ pc' = "fdone"
              /\ UNCHANGED <<hookLog, dq, err>>
           \/ /\ inline
              /\ ~h.ok
              /\ ~TryAbsorbs(f)
              /\ pc' = "fail"
              /\ err' = Err("Io", -1, "hook", vi)
              /\ UNCHANGED <<vals, how, attempt, hookLog, dq, pos>>
    /\ UNCHANGED <<ins, hi, topt, vopt, fend, vi, vstart, fi, saved, di, ai, errs,
                   result, wv>>

\* The next field, or the deferred phase once every field is done.
FieldNext ==
    /\ pc = "fdone"
    /\ fi' = fi + 1
    /\ pc' = IF fi = Len(Fields) THEN "deferred" ELSE "fbegin"
    /\ UNCHANGED <<ins, pos, hi, topt, vopt, fend, vi, vstart, saved, how, attempt,
                   vals, dq, di, hookLog, ai, err, errs, result, wv>>

\* The deferred after_parse calls, in registration order, each seeing the
\* whole struct.
DeferredStep ==
    /\ pc = "deferred"
    /\ \/ /\ di > Len(dq)
          /\ pc' = "assert"
          /\ UNCHANGED <<vals, hookLog, di, err>>
       \/ /\ di <= Len(dq)
          /\ RunHook(Fields[dq[di]], dq[di], vals, bytes).ok
          /\ vals' = [vals EXCEPT
                        ![dq[di]].r = RunHook(Fields[dq[di]], dq[di], vals, bytes).r]
          /\ hookLog' = Append(hookLog, [f |-> dq[di], visible |-> Visible(vals),
                                         phase |-> "deferred"])
          /\ di' = di + 1
          /\ UNCHANGED <<pc, err>>
       \/ /\ di <= Len(dq)
          /\ ~RunHook(Fields[dq[di]], dq[di], vals, bytes).ok
          /\ pc' = "fail"
          /\ err' = Err("Io", -1, "dhook", vi)
          /\ UNCHANGED <<vals, hookLog, di>>
    /\ UNCHANGED <<ins, pos, hi, topt, vopt, fend, vi, vstart, fi, saved, how,
                   attempt, dq, ai, errs, result, wv>>

\* The assertions, in declared order, once the fields are read; the first
\* one that is false ends the read with its custom error.
AssertStep ==
    /\ pc = "assert"
    /\ \/ /\ ai > Len(CurShape.asserts)
          /\ pc' = "readok"
          /\ result' = [tag |-> "ok", err |-> NoErr]
          /\ UNCHANGED <<ai, err>>
       \/ /\ ai <= Len(CurShape.asserts)
          /\ AssertHolds(CurShape.asserts[ai], vals)
          /\ ai' = ai + 1
          /\ UNCHANGED <<pc, err, result>>
       \/ /\ ai <= Len(CurShape.asserts)
          /\ ~AssertHolds(CurShape.asserts[ai], vals)
          /\ pc' = "fail"
          /\ err' = [Err("AssertFail", pos, "assert", vi) EXCEPT
                        !.payload = AssertPayload(CurShape.asserts[ai], vals)]
          /\ UNCHANGED <<ai, result>>
    /\ UNCHANGED <<ins, pos, hi, topt, vopt, fend, vi, vstart, fi, saved, how,
                   attempt, vals, dq, di, hookLog, errs, wv>>

\* An error of a struct, or one raised before any variant is tried, is
\* returned to the caller unchanged.
Propagate ==
    /\ pc = "fail"
    /\ ~desc.enum \/ err.step \in {"construct", "typemagic"}
    /\ result' = [tag |-> "err", err |-> err]
    /\ pc' = "done"
    /\ UNCHANGED <<ins, pos, hi, topt, vopt, fend, vi, vstart, fi, saved, how,
                   attempt, vals, dq, di, hookLog, ai, err, errs, wv>>

\* A variant failed: its error is kept, the reader put back, what the trial
\* built dropped, and the next variant tried; after the last one the enum's
\* error is returned.
VariantFail ==
    /\ pc = "fail"
    /\ desc.enum
    /\ err.step \notin {"construct", "typemagic"}
    /\ errs' = CollectError(errs, err)
    /\ pos' = vstart
    /\ hi' = vstart
    /\ \/ /\ vi < Len(desc.variants)
          /\ vi' = vi + 1
          /\ pc' = "vbegin"
          /\ err' = NoErr
          /\ vals' = [j \in 1..Len(desc.variants[vi + 1].fields) |-> Unset]
          /\ fi' = 1
          /\ dq' = <<>>
          /\ di' = 1
          /\ ai' = 1
          /\ hookLog' = <<>>
          /\ UNCHANGED result
       \/ /\ vi = Len(desc.variants)
          /\ pc' = "done"
          /\ result' =
                [tag |-> "err",
                 err |-> IF desc.all
                         THEN EnumErrors(CollectError(errs, err), vstart)
                         ELSE err]
          /\ UNCHANGED <<vi, err, vals, fi, dq, di, ai, hookLog>>
    /\ UNCHANGED <<ins, topt, vopt, fend, vstart, saved, how, attempt, wv>>

\* ------------------------------------------------------------------ write
\* The statements of a generated write.
WriteMagicStmt(m) == [op |-> "write_magic", ov |-> "inherit", m |-> m, f |-> 0]

LetOptStmt(ov) == [op |-> "let_opt", ov |-> ov, m |-> <<>>, f |-> 0]

LetImportsStmt == [op |-> "let_imports", ov |-> "inherit", m |-> <<>>, f |-> 0]

WriteFieldStmt(i) == [op |-> "write_field", ov |-> "inherit", m |-> <<>>, f |-> i]

\* prefix_magic with the write of the magic put after out.
PrefixMagicAfterBody(out, magic) ==
    IF magic # <<>> THEN out \o <<WriteMagicStmt(magic)>> ELSE out

\* prefix_magic with the magic never written.
PrefixMagicDropped(out, magic) == out

\* prefix_magic: with a magic, the write of it (ended by ?) goes before out.
PrefixMagic(out, magic) ==
    IF magic # <<>> THEN <<WriteMagicStmt(magic)>> \o out ELSE out

\* prefix_endian with the binding put after out.
PrefixEndianAfterBody(out, endian) == out \o <<LetOptStmt(endian)>>

\* prefix_endian: let OPT = get_endian(endian) goes before out.
PrefixEndian(out, endian) == <<LetOptStmt(endian)>> \o out

\* prefix_imports: with imports, let imports = ARGS goes before out.
PrefixImports(out, imports) ==
    IF imports THEN <<LetImportsStmt>> \o out ELSE out

\* finish: the tokens accumulated.
Finish(out) == out

\* The statements writing the fields of a shape, in declaration order.
FieldStmts(shape) == [i \in 1..Len(shape.fields) |-> WriteFieldStmt(i)]

\* The body handed to the type's PreludeGenerator: a struct's fields, or the
\* active variant's fields behind the variant's own prelude.
Body(d, v) ==
    IF d.enum
    THEN PrefixEndian(PrefixMagic(FieldStmts(d.variants[v]), d.variants[v].magic),
                      d.variants[v].endian)
    ELSE FieldStmts(d.variants[v])

Zeros(n) == [i \in 1..n |-> 0]

\* The bytes of a value in byte order e.
ValueBytes(f, v, e) ==
    CASE v.st # "val" -> <<>>
      [] f.kind \in {"default", "calc"} -> <<>>
      [] f.kind = "vec" -> v.b
      [] f.kind = "nested" -> NestedMagic \o Encode(v.n, 1, e)
      [] OTHER -> Encode(v.n, f.width, e)

\* What a field writes, from the writer's position wp on: its padding as
\* zeros, its magic, its value; nothing but the leading padding when its
\* condition is false.
FieldBytes(f, v, e, vs, wp) ==
    Zeros(SkipBefore(f, wp) - wp)
    \o (IF CondOf(f, vs)
        THEN f.magic \o ValueBytes(f, v, e)
             \o (IF v.st = "val" THEN Zeros(f.padAfter) ELSE <<>>)
        ELSE <<>>)

\* The writer's content after data is written at position wp.
Put(out, wp, data) ==
    [i \in 1..Max2(Len(out), wp + Len(data)) |->
        IF i > wp /\ i <= wp + Len(data) THEN data[i - wp]
        ELSE IF i <= Len(out) THEN out[i] ELSE 0]

\* The bytes the statement at wi writes.
StmtBytes ==
    LET st == code[wi]
        f == Fields[st.f]
    IN  IF st.op = "write_magic" THEN st.m
        ELSE FieldBytes(f, vals[st.f],
                        FinalEndian(GetEndian(f.endian, GuardOf(f, vals), wopt), nat),
                        vals, wpos)

\* A PreludeGenerator is made over the body of the type just read.
GenNew ==
    /\ pc = "readok"
    /\ gen' = Body(desc, vi)
    /\ applied' = {}
    /\ pc' = "gen"
    /\ UNCHANGED <<ins, pos, hi, topt, vopt, fend, vi, vstart, fi, saved, how,
                   attempt, vals, dq, di, hookLog, ai, err, errs, result, code, wi,
                   wopt, outb, wpos, wused, wlog, wres>>

GenPrefixMagic ==
    /\ pc = "gen"
    /\ "magic" \notin applied
    /\ gen' = PrefixMagic(gen, desc.magic)
    /\ applied' = applied \cup {"magic"}
    /\ UNCHANGED <<ins, pc, pos, hi, topt, vopt, fend, vi, vstart, fi, saved, how,
                   attempt, vals, dq, di, hookLog, ai, err, errs, result, code, wi,
                   wopt, outb, wpos, wused, wlog, wres>>

GenPrefixEndian ==
    /\ pc = "gen"
    /\ "endian" \notin applied
    /\ gen' = PrefixEndian(gen, desc.endian)
    /\ applied' = applied \cup {"endian"}
    /\ UNCHANGED <<ins, pc, pos, hi, topt, vopt, fend, vi, vstart, fi, saved, how,
                   attempt, vals, dq, di, hookLog, ai, err, errs, result, code, wi,
                   wopt, outb, wpos, wused, wlog, wres>>

GenPrefixImports ==
    /\ pc = "gen"
    /\ "imports" \notin applied
    /\ gen' = PrefixImports(gen, desc.imports)
    /\ applied' = applied \cup {"imports"}
    /\ UNCHANGED <<ins, pc, pos, hi, topt, vopt, fend, vi, vstart, fi, saved, how,
                   attempt, vals, dq, di, hookLog, ai, err, errs, result, code, wi,
                   wopt, outb, wpos, wused, wlog, wres>>

GenFinish ==
    /\ pc = "gen"
    /\ applied = {"magic", "endian", "imports"}
    /\ code' = Finish(gen)
    /\ wi' = 1
    /\ wopt' = cfg
    /\ pc' = "exec"
    /\ UNCHANGED <<ins, pos, hi, topt, vopt, fend, vi, vstart, fi, saved, how,
                   attempt, vals, dq, di, hookLog, ai, err, errs, result, gen,
                   applied, outb, wpos, wused, wlog, wres>>

\* let OPT = ..; let imports = ARGS;
ExecLet ==
    /\ pc = "exec"
    /\ wi <= Len(code)
    /\ code[wi].op \in {"let_opt", "let_imports"}
    /\ wopt' = IF code[wi].op = "let_opt" THEN GetEndian(code[wi].ov, FALSE, wopt)
               ELSE wopt
    /\ wi' = wi + 1
    /\ UNCHANGED <<ins, pc, pos, hi, topt, vopt, fend, vi, vstart, fi, saved, how,
                   attempt, vals, dq, di, hookLog, ai, err, errs, result, gen,
                   applied, code, outb, wpos, wused, wlog, wres>>

\* A write statement (the magic, or a field) that succeeds.
ExecWrite ==
    /\ pc = "exec"
    /\ wi <= Len(code)
    /\ code[wi].op \in {"write_magic", "write_field"}
    /\ outb' = Put(outb, wpos, StmtBytes)
    /\ wpos' = IF code[wi].op = "write_field" /\ Fields[code[wi].f].restore
               THEN wpos
               ELSE wpos + Len(StmtBytes)
    /\ wused' =
          IF code[wi].op = "write_field"
          THEN Append(wused,
                      [f |-> code[wi].f,
                       e |-> FinalEndian(GetEndian(Fields[code[wi].f].endian,
                                                   GuardOf(Fields[code[wi].f], vals),
                                                   wopt), nat)])
          ELSE wused
    /\ wlog' = Append(wlog, [st |-> code[wi], failed |-> FALSE])
    /\ wi' = wi + 1
    /\ UNCHANGED <<ins, pc, pos, hi, topt, vopt, fend, vi, vstart, fi, saved, how,
                   attempt, vals, dq, di, hookLog, ai, err, errs, result, gen,
                   applied, code, wopt, wres>>

\* A write statement whose write fails after some of its bytes: ? returns
\* the error at once.
ExecWriteFail ==
    /\ pc = "exec"
    /\ wi <= Len(code)
    /\ code[wi].op \in {"write_magic", "write_field"}
    /\ \E k \in 0..(Len(StmtBytes) - 1) :
          outb' = Put(outb, wpos, SubSeq(StmtBytes, 1, k))
    /\ wlog' = Append(wlog, [st |-> code[wi], failed |-> TRUE])
    /\ wres' = "Io"
    /\ pc' = "wdone"
    /\ UNCHANGED <<ins, pos, hi, topt, vopt, fend, vi, vstart, fi, saved, how,
                   attempt, vals, dq, di, hookLog, ai, err, errs, result, gen,
                   applied, code, wi, wopt, wpos, wused>>

\* The last statement is done: write returns Ok.
WriteDone ==
    /\ pc = "exec"
    /\ wi > Len(code)
    /\ wres' = "ok"
    /\ pc' = "wdone"
    /\ UNCHANGED <<ins, pos, hi, topt, vopt, fend, vi, vstart, fi, saved, how,
                   attempt, vals, dq, di, hookLog, ai, err, errs, result, gen,
                   applied, code, wi, wopt, outb, wpos, wused, wlog>>

Next ==
    \/ StartRead
    \/ TypeMagic
    \/ VariantBegin
    \/ FieldBegin
    \/ FieldCond
    \/ FieldMagic
    \/ FieldValue
    \/ FieldAfter
    \/ FieldNext
    \/ DeferredStep
    \/ AssertStep
    \/ Propagate
    \/ VariantFail
    \/ GenNew
    \/ GenPrefixMagic
    \/ GenPrefixEndian
    \/ GenPrefixImports
    \/ GenFinish
    \/ ExecLet
    \/ ExecWrite
    \/ ExecWriteFail
    \/ WriteDone

Spec == Init /\ [][Next]_vars

\* ================================================================= claims
FieldPcs == {"fcond", "fmagic", "fvalue", "fafter", "fdone"}

\* The byte order the precedence rule names for field f of the shape being
\* processed: field, then variant, then type, then the one passed in, then
\* the native one.
PrecedenceOrder(f) ==
    IF f.endian \in {"big", "little"} THEN f.endian
    ELSE IF f.endian = "is_little"
    THEN (IF vals[f.guardSib].n = f.guardEq THEN "little" ELSE "big")
    ELSE IF f.endian = "is_big"
    THEN (IF vals[f.guardSib].n = f.guardEq THEN "big" ELSE "little")
    ELSE IF CurShape.endian # "inherit" THEN CurShape.endian
    ELSE IF desc.endian # "inherit" THEN desc.endian
    ELSE IF cfg # "native" THEN cfg
    ELSE nat

\* C1: the byte order a field is read or written in is the one set at the
\* highest level present (field > variant > type > Configuration > native),
\* and it does not change while the field is processed.
C1_EndianPrecedence ==
    /\ [](/\ pc \in FieldPcs => FinalEndian(fend, nat) = PrecedenceOrder(CurField)
          /\ \A k \in 1..Len(wused) :
                wused[k].e = PrecedenceOrder(Fields[wused[k].f]))
    /\ [][(pc \in FieldPcs /\ pc' \in FieldPcs) => (fend' = fend)]_vars

\* An enum variant with its own byte order, under a type-level byte order
\* and a native Configuration, read and written back.
C1_Witness ==
    /\ pc = "wdone"
    /\ wres = "ok"
    /\ desc.enum
    /\ desc.endian = "big"
    /\ CurShape.endian = "little"
    /\ cfg = "native"
    /\ nat = "big"
    /\ Len(wused) = 1
    /\ wused[1].e = "little"
    /\ vals[1].n = 256

\* C2: the magic is consumed before the value; when it matches, parsing goes
\* on with the bytes after it; when it differs, read fails with BadMagic at
\* the position the magic was expected at, and no value is produced.
C2_Magic ==
    /\ pc \in {"vbegin"} \cup FieldPcs =>
          /\ Len(bytes) >= Len(desc.magic)
          /\ SubSeq(bytes, 1, Len(desc.magic)) = desc.magic
    /\ pc = "vbegin" => pos = Len(desc.magic)
    /\ pc \in FieldPcs => vstart = Len(desc.magic)
    /\ (/\ desc.magic # <<>>
        /\ Len(bytes) >= Len(desc.magic)
        /\ SubSeq(bytes, 1, Len(desc.magic)) # desc.magic
        /\ pc \notin {"start", "typemagic"}) =>
          /\ pc \in {"fail", "done"}
          /\ err = Err("BadMagic", 0, "typemagic", 0)
          /\ pc = "done" => result = [tag |-> "err", err |-> err]
          /\ \A j \in 1..Len(vals) : vals[j] = Unset
    /\ pc \in {"fvalue", "fafter", "fdone"} /\ how # "skip" =>
          LET at == SkipBefore(CurField, saved)
          IN  /\ Slice(bytes, at, Len(CurField.magic)) = CurField.magic
              /\ pc = "fvalue" => pos = at + Len(CurField.magic)
    /\ pc = "fail" /\ err.step = "fmagic" /\ err.kind = "BadMagic" =>
          /\ err.pos = SkipBefore(CurField, saved)
          /\ Slice(bytes, err.pos, Len(CurField.magic)) # CurField.magic
          /\ vals[fi] = Unset
    /\ desc = DocMagic /\ bytes = TestMagic \o <<0, 0, 0, 1>> =>
          /\ pc # "done"
          /\ pc = "readok" => vals[1] = IntVal(1)

\* The documented type read from bytes that do not start with TEST.
C2_Witness ==
    /\ desc = DocMagic
    /\ bytes = <<84, 69, 83, 83, 0, 0, 0, 1>>
    /\ pc = "done"
    /\ result.tag = "err"
    /\ result.err.kind = "BadMagic"
    /\ result.err.pos = 0

\* The try field's parse failed: the value production of a try field failed,
\* or its immediate after_parse did.
TryFailed == pc \in {"fafter", "fdone"} /\ CurField.try /\ how # "skip" /\ ~attempt.ok

AfterRead == {"readok", "gen", "exec", "wdone"}

\* C4: a deferred after_parse runs only once every field of the scope is
\* read, in declaration order, seeing every sibling (later ones included);
\* an immediate one sees only the siblings declared before it, and one that
\* refers to a later sibling is rejected.
C4_Postprocess ==
    /\ \A k \in 1..Len(hookLog) :
          LET e == hookLog[k]
              f == Fields[e.f]
          IN  /\ e.phase = "deferred" =>
                    /\ f.post = "deferred"
                    /\ e.visible = 1..Len(Fields)
                    /\ fi = Len(Fields) + 1
                    /\ f.kind = "ptr" =>
                          vals[e.f].r =
                             bytes[vals[e.f].n
                                   + (IF f.ref # 0 THEN vals[f.ref].n ELSE 0) + 1]
              /\ e.phase = "inline" =>
                    /\ f.post = "now"
                    /\ e.visible = 1..e.f
              /\ \A l \in (k + 1)..Len(hookLog) :
                    hookLog[k].phase = "deferred" =>
                       /\ hookLog[l].phase = "deferred"
                       /\ hookLog[k].f < hookLog[l].f
    /\ pc \in {"assert"} \cup AfterRead =>
          {hookLog[k].f : k \in {j \in 1..Len(hookLog) : hookLog[j].phase = "deferred"}}
             = {j \in 1..Len(Fields) : vals[j].st = "val" /\ Fields[j].post = "deferred"}
    /\ (\E i \in 1..Len(Fields) :
           Fields[i].kind = "ptr" /\ Fields[i].post = "now" /\ Fields[i].ref > i) =>
          /\ pc \in {"start", "fail", "done"}
          /\ hookLog = <<>>
          /\ \A j \in 1..Len(vals) : vals[j] = Unset
          /\ pc # "start" => err.kind = "ContractViolation"

\* A deferred ptr declared first, relative to the sibling declared after it,
\* resolved after the immediate after_parse of the third field.
C4_Witness ==
    /\ pc = "readok"
    /\ Len(Fields) = 3
    /\ Len(hookLog) = 3
    /\ hookLog[1] = [f |-> 3, visible |-> {1, 2, 3}, phase |-> "inline"]
    /\ hookLog[2] = [f |-> 1, visible |-> {1, 2, 3}, phase |-> "deferred"]
    /\ hookLog[3] = [f |-> 2, visible |-> {1, 2, 3}, phase |-> "deferred"]
    /\ Fields[1].ref = 2
    /\ bytes = <<0, 1, 1>>
    /\ vals[1].r = 1

\* C5: with return_all_errors the variants are tried in declaration order;
\* the first that parses is returned and no later one is tried; when all
\* fail, EnumErrors holds one error per variant, the i-th from variant i.
C5_CollectAll ==
    (desc.enum /\ desc.all) =>
       /\ \A k \in 1..Len(errs) :
             /\ errs[k].v = k
             /\ errs[k].kind \in {"BadMagic", "Io", "AssertFail"}
       /\ pc = "vbegin" => pos = Len(desc.magic)
       /\ pc \in {"vbegin", "fail"} \cup FieldPcs \cup {"deferred", "assert"} \cup AfterRead =>
             Len(errs) = vi - 1
       /\ pc = "done" /\ err.step \notin {"construct", "typemagic"} =>
             /\ result.tag = "err"
             /\ result.err.kind = "EnumErrors"
             /\ result.err.errs = errs
             /\ Len(errs) = Len(desc.variants)
       /\ (desc.variants = EnumVariants /\ bytes = <<1>> /\ pc = "done") =>
             [k \in 1..Len(errs) |-> errs[k].kind] = <<"BadMagic", "Io", "BadMagic">>

\* Three variants, each failing on the same stream.
C5_Witness ==
    /\ desc.enum
    /\ desc.all
    /\ desc.variants = EnumVariants
    /\ bytes = <<1>>
    /\ pc = "done"
    /\ result.err.kind = "EnumErrors"
    /\ Len(result.err.errs) = 3
    /\ result.err.errs[2].kind = "Io"

\* C6: the assertions are evaluated once every field is parsed, in declared
\* order; the first false one ends the read with AssertFail carrying the
\* custom payload; when all hold, read returns the value.
C6_Asserts ==
    /\ pc = "assert" =>
          /\ \A j \in 1..Len(vals) : vals[j].st # "unset"
          /\ fi = Len(Fields) + 1 \/ Len(Fields) = 0
          /\ di = Len(dq) + 1
    /\ pc = "fail" /\ err.step = "assert" =>
          LET a == CurShape.asserts[ai]
          IN  /\ ~(vals[a.lhs].n > (IF a.rhs # 0 THEN vals[a.rhs].n ELSE a.k))
              /\ \A j \in 1..(ai - 1) :
                    vals[CurShape.asserts[j].lhs].n >
                       (IF CurShape.asserts[j].rhs # 0
                        THEN vals[CurShape.asserts[j].rhs].n
                        ELSE CurShape.asserts[j].k)
              /\ err.kind = "AssertFail"
              /\ err.payload = [k \in 1..Len(a.payload) |-> vals[a.payload[k]].n]
    /\ pc \in AfterRead =>
          \A j \in 1..Len(CurShape.asserts) :
             vals[CurShape.asserts[j].lhs].n >
                (IF CurShape.asserts[j].rhs # 0
                 THEN vals[CurShape.asserts[j].rhs].n
                 ELSE CurShape.asserts[j].k)
    /\ desc = DocAssert /\ bytes = <<0, 0, 0, 1, 0, 0, 0, 255>> =>
          /\ pc \notin AfterRead
          /\ pc = "done" =>
                /\ result.err.kind = "AssertFail"
                /\ result.err.payload = <<1, 255>>

\* The documented failure: some_val = 1, some_smaller_val = 255.
C6_Witness ==
    /\ desc = DocAssert
    /\ pc = "done"
    /\ result.err.kind = "AssertFail"
    /\ result.err.payload = <<1, 255>>
    /\ vals[1].n = 1
    /\ vals[2].n = 255

\* No calc field and no padding directive (the model has no map).
NoLossyNoPadding(d) ==
    \A v \in 1..Len(d.variants) : \A i \in 1..Len(d.variants[v].fields) :
       LET f == d.variants[v].fields[i]
       IN  f.kind # "calc" /\ f.padBefore = 0 /\ f.alignBefore <= 1 /\ f.padAfter = 0

\* Also no try field.
RoundTrippable(d) ==
    /\ NoLossyNoPadding(d)
    /\ \A v \in 1..Len(d.variants) : \A i \in 1..Len(d.variants[v].fields) :
          ~d.variants[v].fields[i].try

ValueLen(f, v) ==
    CASE f.kind = "vec" -> Len(v.b)
      [] f.kind = "nested" -> 2
      [] f.kind \in {"calc", "default"} -> 0
      [] OTHER -> f.width

\* The position field i begins at, from the fields before it (none of them
\* a try field): a restore_position field leaves the cursor where it began,
\* before its padding; any other leaves it after its value and pad_after.
RECURSIVE StartOf(_)
StartOf(i) ==
    IF i = 1 THEN vstart + Len(CurShape.magic)
    ELSE LET f == Fields[i - 1]
             s == StartOf(i - 1)
         IN  IF f.restore THEN s
             ELSE IF vals[i - 1].st = "absent" THEN SkipBefore(f, s)
             ELSE SkipBefore(f, s) + Len(f.magic) + ValueLen(f, vals[i - 1]) + f.padAfter

\* C8: after a restore_position field the cursor is where it was before the
\* field's padding, so the next field reads the same bytes; a field without
\* the flag leaves the cursor after its value and pad_after.
C8_RestorePosition ==
    /\ (pc \in FieldPcs /\ \A j \in 1..(fi - 1) : ~Fields[j].try) =>
          /\ saved = StartOf(fi)
          /\ pc \in {"fcond", "fmagic"} => pos = SkipBefore(CurField, StartOf(fi))
          /\ pc = "fdone" /\ ~CurField.try => pos = StartOf(fi + 1)
    /\ pc = "fdone" /\ CurField.restore => pos = saved
    /\ desc = DocRestore /\ bytes = <<0, 0, 0, 1>> =>
          /\ pc # "done"
          /\ pc = "readok" => vals = <<IntVal(1), VecVal(<<0, 0, 0, 1>>)>>

\* A restore_position field with pad_before, read and rewound to 0; and the
\* field after it read from the same bytes.
C8_Witness ==
    /\ pc = "fdone"
    /\ fi = 2
    /\ Fields[1].restore
    /\ Fields[1].padBefore = 1
    /\ bytes = <<255, 0, 1>>
    /\ vals[1].st = "val"
    /\ vals[2] = IntVal(255)
    /\ pos = 1

\* The count of the vec field being processed and the position its elements
\* begin at.
CountN == IF CurField.countSib # 0 THEN vals[CurField.countSib].n ELSE CurField.countConst

CountAt == SkipBefore(CurField, saved) + Len(CurField.magic)

\* C9: a count field yields exactly N elements in stream order; when N is
\* negative or exceeds the bytes left, read returns an Io error.
C9_Count ==
    /\ (pc \in {"fafter", "fdone"} /\ CurField.kind = "vec" /\ how = "val") =>
          /\ CountN >= 0
          /\ CountAt + CountN <= Len(bytes)
          /\ vals[fi].b = [k \in 1..CountN |-> bytes[CountAt + k]]
    /\ (pc = "fail" /\ err.step = "value" /\ CurField.kind = "vec") =>
          /\ err.kind = "Io"
          /\ CountN < 0 \/ CountAt + CountN > Len(bytes)
    /\ pc = "done" /\ result.tag = "err" /\ result.err.step = "value"
          /\ ~desc.enum /\ CurField.kind = "vec" =>
          result.err.kind = "Io"
    /\ desc = DocCount /\ bytes = <<0, 0, 0, 4, 1, 2, 3, 4>> =>
          /\ pc # "done"
          /\ pc = "readok" => vals[2].b = <<1, 2, 3, 4>>
    /\ desc = DocCount /\ bytes = <<0, 0, 0, 4, 1, 2>> =>
          /\ pc \notin AfterRead
          /\ pc = "done" => result.err.kind = "Io"

\* A negative count read from a signed sibling.
C9_Witness ==
    /\ pc = "done"
    /\ result.tag = "err"
    /\ result.err.kind = "Io"
    /\ result.err.step = "value"
    /\ Len(Fields) = 2
    /\ Fields[2].kind = "vec"
    /\ vals[1].n = -1

\* The write statements of the generated code that are magic writes.
MagicStmts == {k \in 1..Len(code) : code[k].op = "write_magic"}

\* C10: the generated write writes a declared magic before every statement
\* of the body; a failure of that write returns at once, with nothing of
\* the body written; with no magic, prefix_magic leaves the body unchanged
\* and no magic is written.
C10_PrefixMagic ==
    /\ [](pc \in {"exec", "wdone"} =>
            /\ (desc.magic # <<>> /\ wlog # <<>>) =>
                  /\ wlog[1].st = WriteMagicStmt(desc.magic)
                  /\ wlog[1].failed =>
                        /\ Len(wlog) = 1
                        /\ Len(outb) < Len(desc.magic)
                        /\ outb = SubSeq(desc.magic, 1, Len(outb))
                  /\ ~wlog[1].failed =>
                        SubSeq(outb, 1, Len(desc.magic)) = desc.magic
            /\ \A k \in 1..Len(wlog) :
                  wlog[k].failed => (k = Len(wlog) /\ pc = "wdone" /\ wres = "Io")
            /\ desc.magic = <<>> =>
                  Cardinality(MagicStmts) =
                     (IF desc.enum /\ CurShape.magic # <<>> THEN 1 ELSE 0))
    /\ [][(pc = "gen" /\ "magic" \notin applied /\ "magic" \in applied') =>
             (gen' = IF desc.magic = <<>> THEN gen
                     ELSE <<WriteMagicStmt(desc.magic)>> \o gen)]_vars

\* The magic TEST whose write failed after two bytes.
C10_Witness ==
    /\ pc = "wdone"
    /\ wres = "Io"
    /\ desc.magic = TestMagic
    /\ Len(wlog) = 1
    /\ wlog[1].failed
    /\ outb = <<84, 69>>

====
